---- MODULE Spec2Model ----
(***************************************************************************)
(* GitSync: the reconciliation engine of App.startSync together with the   *)
(* GitHub data API client it drives and the path / hash helpers it uses.   *)
(*                                                                         *)
(* Paths are sequences of one-character strings, so that sanitizeGitPath   *)
(* and String.startsWith are computed character by character.  Blob ids    *)
(* are numbers: computeGitBlobSha maps a file content to its blob id.      *)
(***************************************************************************)
EXTENDS Integers, Sequences, FiniteSets, TLC

(***************************************************************************)
(* Bounds of the model.                                                    *)
(***************************************************************************)
MaxFiles == 2
MaxRemote == 2
MaxRuns == 1
MaxReruns == 2
MaxExternal == 1
BatchFiles == 11

(***************************************************************************)
(* Program constants.                                                      *)
(***************************************************************************)
CHUNK_SIZE == 5

NoCommit == 0

NoSha == 0

(***************************************************************************)
(* Generic sequence helpers.                                               *)
(***************************************************************************)
SeqRange(s) == { s[i] : i \in DOMAIN s }

(***************************************************************************)
(* fileUtils.sanitizeGitPath, one operator per chained call.               *)
(***************************************************************************)
\* .replace(/\\/g, '/')
ReplaceBackslashes(p) == [i \in DOMAIN p |-> IF p[i] = "\\" THEN "/" ELSE p[i]]

\* .replace(/\/+/g, '/')
RECURSIVE CollapseSlashes(_)
CollapseSlashes(p) ==
  IF Len(p) < 2 THEN p
  ELSE IF p[1] = "/" /\ p[2] = "/" THEN CollapseSlashes(Tail(p))
       ELSE <<p[1]>> \o CollapseSlashes(Tail(p))

\* .replace(/^\/+/, '')
RECURSIVE StripLeadingSlashes(_)
StripLeadingSlashes(p) ==
  IF p /= <<>> /\ p[1] = "/" THEN StripLeadingSlashes(Tail(p)) ELSE p

\* .replace(/\/+$/, '')
RECURSIVE StripTrailingSlashes(_)
StripTrailingSlashes(p) ==
  IF p /= <<>> /\ p[Len(p)] = "/"
  THEN StripTrailingSlashes(SubSeq(p, 1, Len(p) - 1))
  ELSE p

\* .split('/'): a sequence of segments, never empty ("" splits into [""])
RECURSIVE SplitSlash(_)
SplitSlash(p) ==
  IF \A i \in DOMAIN p : p[i] /= "/" THEN <<p>>
  ELSE LET k == CHOOSE i \in DOMAIN p :
                  p[i] = "/" /\ \A j \in 1..(i - 1) : p[j] /= "/"
       IN <<SubSeq(p, 1, k - 1)>> \o SplitSlash(SubSeq(p, k + 1, Len(p)))

\* .filter(part => part && part !== '.' && part !== '..')
KeepPart(part) == part /= <<>> /\ part /= <<".">> /\ part /= <<".", ".">>

RECURSIVE FilterParts(_)
FilterParts(parts) ==
  IF parts = <<>> THEN <<>>
  ELSE IF KeepPart(Head(parts)) THEN <<Head(parts)>> \o FilterParts(Tail(parts))
       ELSE FilterParts(Tail(parts))

\* .join('/')
RECURSIVE JoinSlash(_)
JoinSlash(parts) ==
  IF parts = <<>> THEN <<>>
  ELSE IF Len(parts) = 1 THEN parts[1]
       ELSE parts[1] \o <<"/">> \o JoinSlash(Tail(parts))

\* a faulty variant: the backslashes are replaced after the segments are joined
sanitizeGitPathReplacingLast(path) ==
  ReplaceBackslashes(JoinSlash(FilterParts(SplitSlash(StripTrailingSlashes(
      StripLeadingSlashes(CollapseSlashes(path)))))))

sanitizeGitPath(path) ==
  JoinSlash(FilterParts(SplitSlash(StripTrailingSlashes(StripLeadingSlashes(
      CollapseSlashes(ReplaceBackslashes(path)))))))

\* String.prototype.startsWith
startsWith(s, prefix) ==
  Len(prefix) <= Len(s) /\ SubSeq(s, 1, Len(prefix)) = prefix

\* String.prototype.endsWith
endsWith(s, suffix) ==
  Len(suffix) <= Len(s) /\ SubSeq(s, Len(s) - Len(suffix) + 1, Len(s)) = suffix

\* String.prototype.includes
includes(s, sub) ==
  \E i \in 1..(Len(s) - Len(sub) + 1) : SubSeq(s, i, i + Len(sub) - 1) = sub

(***************************************************************************)
(* fileUtils.parseRepoUrl.  Strings are sequences of characters; the texts *)
(* the function looks for are spelled out.                                 *)
(***************************************************************************)
GitHubCom == <<"g", "i", "t", "h", "u", "b", ".", "c", "o", "m">>
DotGit == <<".", "g", "i", "t">>
Http == <<"h", "t", "t", "p">>
HttpScheme == Http \o <<":", "/", "/">>
HttpsScheme == Http \o <<"s", ":", "/", "/">>

\* the null parseRepoUrl returns
Null == [null |-> TRUE]

\* String.prototype.trim
RECURSIVE trim(_)
trim(s) ==
  IF s /= <<>> /\ s[1] = " " THEN trim(Tail(s))
  ELSE IF s /= <<>> /\ s[Len(s)] = " " THEN trim(SubSeq(s, 1, Len(s) - 1))
  ELSE s

\* lines 45-57: trim, drop trailing slashes, drop one ".git", drop trailing
\* slashes
CleanRepoUrl(url) ==
  LET a == StripTrailingSlashes(trim(url))
      b == IF endsWith(a, DotGit) THEN SubSeq(a, 1, Len(a) - Len(DotGit)) ELSE a
  IN StripTrailingSlashes(b)

\* new URL(cleanUrl) for the texts the function can hand it here: a scheme of
\* http:// or https://, then the host up to the next slash, then the path
\* (no port, user, query or fragment); anything else that starts with "http"
\* makes new URL throw
UrlSchemeLength(u) ==
  IF startsWith(u, HttpsScheme) THEN Len(HttpsScheme)
  ELSE IF startsWith(u, HttpScheme) THEN Len(HttpScheme)
  ELSE 0

UrlAfterScheme(u) == SubSeq(u, UrlSchemeLength(u) + 1, Len(u))

\* urlObj.hostname
UrlHostname(u) == Head(SplitSlash(UrlAfterScheme(u)))

\* urlObj.pathname
UrlPathname(u) ==
  SubSeq(UrlAfterScheme(u), Len(UrlHostname(u)) + 1, Len(UrlAfterScheme(u)))

UrlThrows(u) == UrlSchemeLength(u) = 0 \/ UrlHostname(u) = <<>>

\* .filter(Boolean) on the parts of a split
RECURSIVE FilterEmpty(_)
FilterEmpty(parts) ==
  IF parts = <<>> THEN <<>>
  ELSE IF Head(parts) /= <<>> THEN <<Head(parts)>> \o FilterEmpty(Tail(parts))
       ELSE FilterEmpty(Tail(parts))

parseRepoUrl(url) ==
  IF url = <<>> THEN Null
  ELSE LET stripped == CleanRepoUrl(url)
           cleanUrl == IF startsWith(stripped, GitHubCom \o <<"/">>)
                       THEN HttpsScheme \o stripped
                       ELSE stripped
       IN IF stripped = <<>> THEN Null
          ELSE IF ~startsWith(cleanUrl, Http)
          THEN LET parts == SplitSlash(cleanUrl)
               IN IF Len(parts) = 2
                  THEN [owner |-> parts[1], repo |-> parts[2]]
                  ELSE Null
          ELSE IF UrlThrows(cleanUrl) THEN Null
          ELSE IF ~includes(UrlHostname(cleanUrl), GitHubCom) THEN Null
          ELSE LET parts == FilterEmpty(SplitSlash(UrlPathname(cleanUrl)))
               IN IF Len(parts) >= 2
                  THEN [owner |-> parts[1], repo |-> parts[2]]
                  ELSE Null

(***************************************************************************)
(* fileUtils.computeGitBlobSha: SHA-1 over "blob <size>\0" + bytes.  A     *)
(* content is a number standing for a byte string; distinct contents have  *)
(* distinct blob ids, and a blob id is never the falsy NoSha.              *)
(***************************************************************************)
computeGitBlobSha(content) == 100 + content

(***************************************************************************)
(* State.                                                                  *)
(***************************************************************************)
VARIABLES
  \* the device folder offered by the picker, and the remote repository
  folder, remoteHead, commitObjs, treeObjs,
  \* React state of App
  config, isConnected, files, syncState, progress, stats, logs,
  \* the closure of the running startSync call
  pc, latestCommitSha, baseTreeData, scanError,
  filesToUpload, filesSkipped, filesToDelete, processedRemotePaths,
  analysisCount, newTree, completedOps, uploadedPaths, chunkStart, tasks,
  finalTree, commitMessage, newTreeSha, newCommitSha,
  \* closures of earlier startSync calls that still have uploads in flight
  stale,
  \* the number of startSync calls so far, and observation of the current one
  runs, calls, refDone, headAtStart, hashFailed, genOutcome,
  \* a call of sanitizeGitPath and a call of parseRepoUrl on their own: the
  \* argument and what the call returned
  pathArg, pathResult, urlArg, urlResult

envVars == <<folder, remoteHead, commitObjs, treeObjs>>
uiVars == <<config, isConnected, files, syncState, progress, stats, logs>>
scanVars == <<latestCommitSha, baseTreeData, scanError>>
planVars == <<filesToUpload, filesSkipped, filesToDelete, processedRemotePaths,
              analysisCount>>
uploadVars == <<newTree, completedOps, uploadedPaths, chunkStart, tasks>>
commitVars == <<finalTree, commitMessage, newTreeSha, newCommitSha>>
pureVars == <<pathArg, pathResult, urlArg, urlResult>>
obsVars == <<calls, refDone, headAtStart, hashFailed, genOutcome, pureVars>>
vars == <<envVars, uiVars, pc, scanVars, planVars, uploadVars, commitVars,
          stale, runs, obsVars>>

(***************************************************************************)
(* types.ts: SyncState, and the order the spec gives its stages.           *)
(***************************************************************************)
SyncStates ==
  {"IDLE", "SCANNING", "ANALYZING", "UPLOADING", "COMMITTING", "SUCCESS", "ERROR"}

\* App.addLog: appends one entry (id and timestamp are not modelled)
LogEntry(message, type, path) == [message |-> message, type |-> type, path |-> path]

addLog(log, message, type, path) == Append(log, LogEntry(message, type, path))

(***************************************************************************)
(* GitHubService: the remote repository.  A commit id is an index into     *)
(* commitObjs, a tree id an index into treeObjs; a tree is the sequence of *)
(* its entries in listing order.                                           *)
(***************************************************************************)
Blob(path, mode, sha) == [path |-> path, mode |-> mode, type |-> "blob", sha |-> sha]

\* GitHubService.createCommit: const parents = parentSha ? [parentSha] : []
CommitParents(parentSha) == IF parentSha /= NoCommit THEN <<parentSha>> ELSE <<>>

\* the tree a commit id resolves to
TreeOfCommit(c) == treeObjs[commitObjs[c].tree]

\* whether commit a is b or an ancestor of b (a fast-forward from a to b)
RECURSIVE IsAncestor(_, _, _)
IsAncestor(a, b, fuel) ==
  \/ a = b
  \/ /\ fuel > 0
     /\ \E q \in SeqRange(commitObjs[b].parents) : IsAncestor(a, q, fuel - 1)

\* a faulty variant: the update is forced, the ref has only to exist
UpdateRefForced(commitSha) == remoteHead /= NoCommit

\* PATCH git/refs/heads/<branch> with force: false: the ref must exist and the
\* update must be a fast-forward
UpdateRefAccepted(commitSha) ==
  /\ remoteHead /= NoCommit
  /\ IsAncestor(remoteHead, commitSha, Len(commitObjs))

\* POST git/refs: the ref must not exist yet
CreateRefAccepted == remoteHead = NoCommit

(***************************************************************************)
(* startSync: the pure parts of the algorithm.                             *)
(***************************************************************************)
\* a faulty variant: the prefix is the normalized target path without the slash
TargetPrefixWithoutSlash(targetPath) ==
  IF targetPath /= <<>> THEN sanitizeGitPath(targetPath) ELSE <<>>

\* const targetPrefix = config.targetPath ? sanitizeGitPath(config.targetPath) + '/' : ''
TargetPrefix(targetPath) ==
  IF targetPath /= <<>> THEN sanitizeGitPath(targetPath) \o <<"/">> ELSE <<>>

\* a faulty variant: the remote path is the path of the file, without the prefix
RemotePathOfUnprefixed(targetPath, f) == f.path

\* const remotePath = sanitizeGitPath(targetPrefix + f.path)
RemotePathOf(targetPath, f) == sanitizeGitPath(TargetPrefix(targetPath) \o f.path)

\* remoteFileMap.get(path): the map is filled in listing order from the blob
\* entries, so the last blob entry of a path wins; NoSha when there is none
RemoteFileMapGet(tree, path) ==
  LET hits == { i \in DOMAIN tree : tree[i].type = "blob" /\ tree[i].path = path }
  IN IF hits = {} THEN NoSha
     ELSE tree[CHOOSE i \in hits : \A j \in hits : j <= i].sha

\* a faulty variant: the delete pass does not look at the matched paths
RECURSIVE DeletePassOfMatched(_, _, _)
DeletePassOfMatched(tree, targetPrefix, processed) ==
  IF tree = <<>> THEN <<>>
  ELSE LET item == Head(tree)
           rest == DeletePassOfMatched(Tail(tree), targetPrefix, processed)
       IN IF item.type = "blob"
          THEN IF targetPrefix /= <<>> /\ ~startsWith(item.path, targetPrefix)
               THEN rest
               ELSE <<item.path>> \o rest
          ELSE rest

\* the delete pass over baseTreeData.tree, in listing order
RECURSIVE DeletePass(_, _, _)
DeletePass(tree, targetPrefix, processed) ==
  IF tree = <<>> THEN <<>>
  ELSE LET item == Head(tree)
           rest == DeletePass(Tail(tree), targetPrefix, processed)
       IN IF item.type = "blob"
          THEN IF targetPrefix /= <<>> /\ ~startsWith(item.path, targetPrefix)
               THEN rest
               ELSE IF item.path \notin processed
                    THEN <<item.path>> \o rest
                    ELSE rest
          ELSE rest

\* a faulty variant: the delete pass is run on a truncated listing as well
ComputeFilesToDeleteTruncated(cfg, base, processed) ==
  IF cfg.deleteMissing
  THEN DeletePass(base.tree, TargetPrefix(cfg.targetPath), processed)
  ELSE <<>>

\* if (config.deleteMissing && !baseTreeData.truncated) { ... }
ComputeFilesToDelete(cfg, base, processed) ==
  IF cfg.deleteMissing /\ ~base.truncated
  THEN DeletePass(base.tree, TargetPrefix(cfg.targetPath), processed)
  ELSE <<>>

\* a faulty variant: the pass carries the entries of every type
RECURSIVE KeepPassOfEveryType(_, _, _, _, _, _)
KeepPassOfEveryType(tree, uploadedSet, toDelete, targetPrefix, processed, deleteMissing) ==
  IF tree = <<>> THEN <<>>
  ELSE LET t == Head(tree)
           rest == KeepPassOfEveryType(Tail(tree), uploadedSet, toDelete,
                                       targetPrefix, processed, deleteMissing)
       IN IF t.path \in uploadedSet THEN rest
          ELSE IF t.path \in SeqRange(toDelete) THEN rest
          ELSE IF /\ targetPrefix /= <<>>
                  /\ startsWith(t.path, targetPrefix)
                  /\ t.path \notin processed
                  /\ deleteMissing
               THEN rest
          ELSE <<[path |-> t.path, mode |-> t.mode, type |-> t.type, sha |-> t.sha]>>
               \o rest

\* a faulty variant: the kept entries are given the regular-file mode
RECURSIVE KeepPassRegularMode(_, _, _, _, _, _)
KeepPassRegularMode(tree, uploadedSet, toDelete, targetPrefix, processed, deleteMissing) ==
  IF tree = <<>> THEN <<>>
  ELSE LET t == Head(tree)
           rest == KeepPassRegularMode(Tail(tree), uploadedSet, toDelete,
                                       targetPrefix, processed, deleteMissing)
       IN IF t.type /= "blob" THEN rest
          ELSE IF t.path \in uploadedSet THEN rest
          ELSE IF t.path \in SeqRange(toDelete) THEN rest
          ELSE IF /\ targetPrefix /= <<>>
                  /\ startsWith(t.path, targetPrefix)
                  /\ t.path \notin processed
                  /\ deleteMissing
               THEN rest
          ELSE <<[path |-> t.path, mode |-> "100644", type |-> t.type, sha |-> t.sha]>>
               \o rest

\* the pass over baseTreeData.tree that carries remote entries into finalTree
RECURSIVE KeepPass(_, _, _, _, _, _)
KeepPass(tree, uploadedSet, toDelete, targetPrefix, processed, deleteMissing) ==
  IF tree = <<>> THEN <<>>
  ELSE LET t == Head(tree)
           rest == KeepPass(Tail(tree), uploadedSet, toDelete, targetPrefix,
                            processed, deleteMissing)
       IN IF t.type /= "blob" THEN rest
          ELSE IF t.path \in uploadedSet THEN rest
          ELSE IF t.path \in SeqRange(toDelete) THEN rest
          ELSE IF /\ targetPrefix /= <<>>
                  /\ startsWith(t.path, targetPrefix)
                  /\ t.path \notin processed
                  /\ deleteMissing
               THEN rest
          ELSE <<[path |-> t.path, mode |-> t.mode, type |-> t.type, sha |-> t.sha]>>
               \o rest

\* a faulty variant: the final tree holds the uploaded entries only
AssembleFinalTreeUploadsOnly(cfg, base, entries, uploaded, toDelete, processed) ==
  entries

\* const finalTree = [...newTree]; baseTreeData.tree.forEach(...)
AssembleFinalTree(cfg, base, entries, uploaded, toDelete, processed) ==
  entries \o KeepPass(base.tree, SeqRange(uploaded), toDelete,
                      TargetPrefix(cfg.targetPath), processed, cfg.deleteMissing)

\* the indices of filesToUpload.slice(i, i + CHUNK_SIZE), 1-based
ChunkIndices(i, n) ==
  { k \in 1..n : i < k /\ k <= i + CHUNK_SIZE }

\* 20 + Math.round((completedOps / totalOps) * 70)
UploadProgress(done, totalOps) ==
  20 + ((2 * 70 * done + totalOps) \div (2 * totalOps))

\* a faulty variant: the ref is always moved with updateRef
RefCallKindAlwaysUpdate(parentSha) == "updateRef"

\* whether startSync picks updateRef (a head was resolved) or createRef
RefCallKind(parentSha) == IF parentSha /= NoCommit THEN "updateRef" ELSE "createRef"

\* let commitMessage = `chore: sync ${filesToUpload.length} files`
TemplateMessage(n) == [text |-> "chore: sync <N> files", n |-> n]

\* a faulty variant: a file present on the remote is uploaded without comparing hashes
ClassifyWithoutCompare(cfg, base, f, hashOk) ==
  LET remoteSha == RemoteFileMapGet(base.tree, RemotePathOf(cfg.targetPath, f))
  IN IF remoteSha /= NoSha THEN "modified" ELSE "new"

\* a faulty variant: a file whose hash could not be computed is skipped
ClassifySkippingUnhashable(cfg, base, f, hashOk) ==
  LET remoteSha == RemoteFileMapGet(base.tree, RemotePathOf(cfg.targetPath, f))
  IN IF remoteSha /= NoSha
     THEN IF hashOk /\ computeGitBlobSha(f.content) /= remoteSha
          THEN "modified"
          ELSE "unchanged"
     ELSE "new"

\* what one loop iteration of the analysis decides for file f; hashOk tells
\* whether computeGitBlobSha returned (TRUE) or threw (FALSE)
Classify(cfg, base, f, hashOk) ==
  LET remoteSha == RemoteFileMapGet(base.tree, RemotePathOf(cfg.targetPath, f))
  IN IF remoteSha /= NoSha
     THEN IF hashOk /\ computeGitBlobSha(f.content) = remoteSha
          THEN "unchanged"
          ELSE "modified"
     ELSE "new"

(***************************************************************************)
(* handleFolderSelect: the picker's files become FileToSync records.       *)
(***************************************************************************)
\* parts.length > 1 ? parts.slice(1).join('/') : fullPath
RelativePath(fullPath) ==
  LET parts == SplitSlash(fullPath)
  IN IF Len(parts) > 1 THEN JoinSlash(Tail(parts)) ELSE fullPath

RECURSIVE SyncFilesOf(_)
SyncFilesOf(fileList) ==
  IF fileList = <<>> THEN <<>>
  ELSE LET f == Head(fileList)
           sanitizedPath == sanitizeGitPath(RelativePath(f.webkitRelativePath))
       IN IF Len(sanitizedPath) > 0
          THEN <<[path |-> sanitizedPath, content |-> f.content, flaky |-> f.flaky]>>
               \o SyncFilesOf(Tail(fileList))
          ELSE SyncFilesOf(Tail(fileList))

(***************************************************************************)
(* Inputs: device folders, configurations and remote repositories.         *)
(***************************************************************************)
\* a File of the picker: its path, its bytes, and whether uploading it can
\* fail (its read can be refused, or the blob API can refuse or miss it)
DeviceFile(rel, content, flaky) ==
  [webkitRelativePath |-> rel, content |-> content, flaky |-> flaky]

\* the second file has a dot segment, a dot-dot segment and a backslash in its
\* raw path: its normalized path is that of the first
DeviceFiles ==
  { DeviceFile(<<"r", "/", "a">>, 1, TRUE),
    DeviceFile(<<"r", "/", ".", "/", ".", ".", "\\", "a">>, 2, TRUE),
    DeviceFile(<<"r", "/", "b">>, 1, TRUE) }

\* the folders of at most n distinct device files
Folders(n) ==
  UNION { { fl \in [1..k -> DeviceFiles] :
              \A i, j \in 1..k : i /= j => fl[i] /= fl[j] } : k \in 0..n }

Configs ==
  [ targetPath : { <<>>, <<"s">>, <<"/">> },
    deleteMissing : BOOLEAN,
    autoCommitMessage : BOOLEAN ]

\* the remote entries a branch may hold, in listing (path) order
RemoteUniverse ==
  << Blob(<<"a">>, "100644", 101),
     Blob(<<"s", "/", "a">>, "100755", 102),
     Blob(<<"s", "2", "/", "f">>, "100644", 101),
     [path |-> <<"s", "u", "b">>, mode |-> "160000", type |-> "commit", sha |-> 900] >>

RECURSIVE Select(_, _, _)
Select(universe, keep, i) ==
  IF i > Len(universe) THEN <<>>
  ELSE (IF i \in keep THEN <<universe[i]>> ELSE <<>>) \o Select(universe, keep, i + 1)

\* the trees of at most n entries of the universe, each in listing order
Trees(n) ==
  { Select(RemoteUniverse, keep, 1) :
      keep \in { k \in SUBSET (DOMAIN RemoteUniverse) : Cardinality(k) <= n } }

\* a remote: the branch is absent, or its head commit has one of the trees
AbsentRemote == { [exists |-> FALSE, tree |-> <<>>] }

Remotes(n) == AbsentRemote \cup { [exists |-> TRUE, tree |-> t] : t \in Trees(n) }

EmptyBase == [tree |-> <<>>, truncated |-> FALSE]

NoCalls ==
  [createBlob |-> 0, createTree |-> 0, createCommit |-> 0,
   createRef |-> 0, updateRef |-> 0]

NoMessage == [text |-> "", n |-> 0]

\* the closure variables as they are when no startSync call is running
ClosureIdle ==
  /\ pc = "idle"
  /\ latestCommitSha = NoCommit
  /\ baseTreeData = EmptyBase
  /\ scanError = "none"
  /\ filesToUpload = <<>>
  /\ filesSkipped = <<>>
  /\ filesToDelete = <<>>
  /\ processedRemotePaths = {}
  /\ analysisCount = 0
  /\ newTree = <<>>
  /\ completedOps = 0
  /\ uploadedPaths = <<>>
  /\ chunkStart = 0
  /\ tasks = <<>>
  /\ finalTree = <<>>
  /\ commitMessage = NoMessage
  /\ newTreeSha = 0
  /\ newCommitSha = NoCommit
  /\ calls = NoCalls
  /\ refDone = "none"
  /\ headAtStart = NoCommit
  /\ hashFailed = FALSE
  /\ genOutcome = "none"

\* the same of the next state
ResetClosure ==
  /\ pc' = "idle"
  /\ latestCommitSha' = NoCommit
  /\ baseTreeData' = EmptyBase
  /\ scanError' = "none"
  /\ filesToUpload' = <<>>
  /\ filesSkipped' = <<>>
  /\ filesToDelete' = <<>>
  /\ processedRemotePaths' = {}
  /\ analysisCount' = 0
  /\ newTree' = <<>>
  /\ completedOps' = 0
  /\ uploadedPaths' = <<>>
  /\ chunkStart' = 0
  /\ tasks' = <<>>
  /\ finalTree' = <<>>
  /\ commitMessage' = NoMessage
  /\ newTreeSha' = 0
  /\ newCommitSha' = NoCommit
  /\ calls' = NoCalls
  /\ refDone' = "none"
  /\ headAtStart' = NoCommit
  /\ hashFailed' = FALSE
  /\ genOutcome' = "none"

\* the value of pathResult and urlResult before the call
NotCalled == [called |-> FALSE]

\* the app as it is mounted, over a device folder, a configuration and a remote
InitApp(folders, configs, remotes) ==
  /\ folder \in folders
  /\ config \in configs
  /\ \E r \in remotes :
       /\ remoteHead = (IF r.exists THEN 1 ELSE NoCommit)
       /\ treeObjs = (IF r.exists THEN <<r.tree>> ELSE <<>>)
       /\ commitObjs = (IF r.exists
                        THEN <<[tree |-> 1, parents |-> <<>>,
                                message |-> NoMessage, by |-> "origin"]>>
                        ELSE <<>>)
  /\ isConnected = FALSE
  /\ files = <<>>
  /\ syncState = "IDLE"
  /\ progress = 0
  /\ stats = [total |-> 0, scanned |-> 0, uploaded |-> 0]
  /\ logs = <<>>
  /\ ClosureIdle
  /\ stale = <<>>
  /\ runs = 0

InitWith(folders, configs, remotes) ==
  /\ InitApp(folders, configs, remotes)
  /\ pathArg = <<>> /\ pathResult = NotCalled
  /\ urlArg = <<>> /\ urlResult = NotCalled

\* a folder of n files r/a, r/b, ... of one content, for the upload batches;
\* the files at the positions of flaky are the ones whose upload can fail
Letters == <<"a", "b", "c", "d", "e", "f", "g", "h", "i", "j", "k", "l", "m", "n">>

BatchFolder(n, flaky) ==
  [k \in 1..n |-> DeviceFile(<<"r", "/", Letters[k]>>, 1, k \in flaky)]

BatchConfigs ==
  { [targetPath |-> <<>>, deleteMissing |-> FALSE, autoCommitMessage |-> FALSE] }

Init ==
  \/ InitWith(Folders(MaxFiles), Configs, Remotes(MaxRemote))
  \/ InitWith({BatchFolder(CHUNK_SIZE + 1, {})}, BatchConfigs, AbsentRemote)

\* a folder of two new files whose uploads can fail, on which a second
\* startSync call is followed
RerunFolder ==
  << DeviceFile(<<"r", "/", "a">>, 3, TRUE), DeviceFile(<<"r", "/", "b">>, 3, TRUE) >>

\* the number of startSync calls followed from a state
RunsAllowed == IF folder = RerunFolder THEN MaxReruns ELSE MaxRuns

InitBatch ==
  \/ InitWith({BatchFolder(BatchFiles, {CHUNK_SIZE + 2, CHUNK_SIZE + 3})},
              BatchConfigs, AbsentRemote)
  \/ InitWith(Folders(2), Configs, Remotes(1))

(***************************************************************************)
(* handleConnect (its successful path), handleFolderSelect.                *)
(***************************************************************************)
HandleConnect ==
  /\ syncState = "IDLE"
  /\ ~isConnected
  /\ isConnected' = TRUE
  /\ logs' = addLog(addLog(logs, "Authenticated as", "success", <<>>),
                    "Repository found", "success", <<>>)
  /\ UNCHANGED <<envVars, config, files, syncState, progress, stats, pc, scanVars,
                 planVars, uploadVars, commitVars, stale, runs, obsVars>>

HandleFolderSelect ==
  /\ syncState = "IDLE"
  /\ isConnected
  /\ Len(folder) > 0
  /\ \A i \in DOMAIN logs : logs[i].message /= "Selected files"
  /\ files' = SyncFilesOf(folder)
  /\ stats' = [total |-> Len(files'), scanned |-> 0, uploaded |-> 0]
  /\ logs' = addLog(logs, "Selected files", "info", <<>>)
  /\ syncState' = "IDLE"
  /\ progress' = 0
  /\ UNCHANGED <<envVars, config, isConnected, pc, scanVars, planVars, uploadVars,
                 commitVars, stale, runs, obsVars>>

(***************************************************************************)
(* startSync.                                                              *)
(***************************************************************************)
\* the catch block of startSync
\* a faulty variant: the catch block puts the stage back to Idle
CatchResetsStage(log, reason) ==
  /\ syncState' = "IDLE"
  /\ logs' = addLog(log, reason, "error", <<>>)
  /\ pc' = "done"

\* a faulty variant: the catch block sets the stage and logs nothing
CatchSilently(log, reason) ==
  /\ syncState' = "ERROR"
  /\ logs' = log
  /\ pc' = "done"

Catch(log, reason) ==
  /\ syncState' = "ERROR"
  /\ logs' = addLog(log, reason, "error", <<>>)
  /\ pc' = "done"

\* if (files.length === 0 && !config.deleteMissing) { addLog(...); return; }
StartSyncNoFiles ==
  /\ syncState = "IDLE"
  /\ isConnected
  /\ pc = "idle"
  /\ files = <<>> /\ ~config.deleteMissing
  /\ \A i \in DOMAIN logs : logs[i].message /= "No files selected."
  /\ logs' = addLog(logs, "No files selected.", "warning", <<>>)
  /\ UNCHANGED <<envVars, config, isConnected, files, syncState, progress, stats,
                 pc, scanVars, planVars, uploadVars, commitVars, stale, runs, obsVars>>

\* lines 227-240: up to the await of gh.getRef
StartSync ==
  /\ syncState = "IDLE"
  /\ isConnected
  /\ pc = "idle"
  /\ runs < RunsAllowed
  /\ ~(files = <<>> /\ ~config.deleteMissing)
  /\ syncState' = "SCANNING"
  /\ progress' = 0
  /\ stats' = [total |-> Len(files), scanned |-> 0, uploaded |-> 0]
  /\ logs' = addLog(logs, "Targeting branch", "info", <<>>)
  /\ pc' = "getRef"
  /\ runs' = runs + 1
  /\ headAtStart' = remoteHead
  /\ UNCHANGED <<envVars, config, isConnected, files, scanVars, planVars,
                 uploadVars, commitVars, stale, calls, refDone, hashFailed,
                 genOutcome, pureVars>>

\* lines 247-260, run once the Scanning try/catch is left with listing base
EnterAnalyzing(log, base) ==
  /\ baseTreeData' = base
  /\ syncState' = "ANALYZING"
  /\ logs' = addLog(
       IF base.truncated /\ config.deleteMissing
       THEN addLog(log, "Repo too large. Delete missing disabled safely.",
                   "warning", <<>>)
       ELSE log,
       "Analyzing file signatures...", "info", <<>>)
  /\ pc' = "loop"

\* the catch of the Scanning try: whatever was thrown is dropped
ScanCatch(kind) ==
  /\ scanError' = kind
  /\ EnterAnalyzing(addLog(logs, "Branch not found (or repo empty). Initializing fresh upload.",
                           "info", <<>>), baseTreeData)

\* gh.getRef returns the ref of the branch
GetRefOk ==
  /\ pc = "getRef"
  /\ remoteHead /= NoCommit
  /\ latestCommitSha' = remoteHead
  /\ pc' = "getTree"
  /\ UNCHANGED <<envVars, uiVars, baseTreeData, scanError, planVars, uploadVars,
                 commitVars, stale, runs, obsVars>>

\* gh.getRef throws: the branch does not exist (404), or any other failure
GetRefFail ==
  /\ pc = "getRef"
  /\ ScanCatch(IF remoteHead = NoCommit THEN "notfound" ELSE "other")
  /\ UNCHANGED <<envVars, config, isConnected, files, progress, stats,
                 latestCommitSha, planVars, uploadVars, commitVars, stale, runs, obsVars>>

\* gh.getTreeRecursive returns the listing of the head's tree: all of it, or a
\* size-limited prefix of it with truncated = true
GetTreeOk ==
  /\ pc = "getTree"
  /\ \E k \in 0..Len(TreeOfCommit(latestCommitSha)) :
       EnterAnalyzing(logs,
         [tree |-> SubSeq(TreeOfCommit(latestCommitSha), 1, k),
          truncated |-> k < Len(TreeOfCommit(latestCommitSha))])
  /\ UNCHANGED <<envVars, config, isConnected, files, progress, stats,
                 latestCommitSha, scanError, planVars, uploadVars, commitVars,
                 stale, runs, obsVars>>

\* gh.getTreeRecursive throws: latestCommitSha stays assigned
GetTreeFail ==
  /\ pc = "getTree"
  /\ ScanCatch("other")
  /\ UNCHANGED <<envVars, config, isConnected, files, progress, stats,
                 latestCommitSha, planVars, uploadVars, commitVars, stale, runs, obsVars>>

\* one iteration of for (const f of files), lines 268-294
AnalyzeFile ==
  /\ pc = "loop"
  /\ analysisCount < Len(files)
  /\ LET f == files[analysisCount + 1]
         remotePath == RemotePathOf(config.targetPath, f)
         known == RemoteFileMapGet(baseTreeData.tree, remotePath) /= NoSha
     IN /\ analysisCount' = analysisCount + 1
        /\ stats' = [stats EXCEPT !.scanned = analysisCount + 1]
        /\ progress' = IF Len(files) > 50 /\ (analysisCount + 1) % 10 = 0
                       THEN (2 * 20 * (analysisCount + 1) + Len(files))
                              \div (2 * Len(files))
                       ELSE progress
        /\ processedRemotePaths' =
             IF known THEN processedRemotePaths \cup {remotePath}
             ELSE processedRemotePaths
        /\ \E hashOk \in (IF known THEN BOOLEAN ELSE {TRUE}) :
             /\ hashFailed' = (hashFailed \/ ~hashOk)
             /\ LET class == Classify(config, baseTreeData, f, hashOk)
                IN /\ filesSkipped' =
                        IF class = "unchanged" THEN Append(filesSkipped, remotePath)
                        ELSE filesSkipped
                   /\ filesToUpload' =
                        IF class = "unchanged" THEN filesToUpload
                        ELSE Append(filesToUpload,
                                    [file |-> f, remotePath |-> remotePath,
                                     isNew |-> (class = "new")])
  /\ UNCHANGED <<envVars, config, isConnected, files, syncState, logs, pc,
                 scanVars, filesToDelete, uploadVars, commitVars, stale, runs, calls, refDone, headAtStart,
                 genOutcome, pureVars>>

\* the tasks of chunk i of n uploads: chunk.map(async (item) => ...) runs each
\* task up to its first await, readFileAsBase64
StartChunk(old, i) ==
  [k \in DOMAIN old |-> IF k \in ChunkIndices(i, Len(old)) THEN "read" ELSE old[k]]

\* lines 296-314 when there is nothing to upload and nothing to delete
FinishAnalysisUpToDate ==
  /\ pc = "loop"
  /\ analysisCount = Len(files)
  /\ filesToDelete' = ComputeFilesToDelete(config, baseTreeData, processedRemotePaths)
  /\ Len(filesToUpload) = 0 /\ Len(filesToDelete') = 0
  /\ logs' = addLog(addLog(logs, "Analysis Complete", "info", <<>>),
                    "Remote is already up to date!", "success", <<>>)
  /\ syncState' = "SUCCESS"
  /\ progress' = 100
  /\ pc' = "done"
  /\ UNCHANGED <<envVars, config, isConnected, files, stats, scanVars,
                 filesToUpload, filesSkipped, processedRemotePaths, analysisCount,
                 uploadVars, commitVars, stale, runs, obsVars>>

\* lines 296-325 otherwise: the first chunk of uploads is started
FinishAnalysisStartUpload ==
  /\ pc = "loop"
  /\ analysisCount = Len(files)
  /\ filesToDelete' = ComputeFilesToDelete(config, baseTreeData, processedRemotePaths)
  /\ ~(Len(filesToUpload) = 0 /\ Len(filesToDelete') = 0)
  /\ logs' = addLog(logs, "Analysis Complete", "info", <<>>)
  /\ syncState' = "UPLOADING"
  /\ newTree' = <<>>
  /\ completedOps' = 0
  /\ uploadedPaths' = <<>>
  /\ chunkStart' = 0
  /\ tasks' = StartChunk([k \in DOMAIN filesToUpload |-> "pending"], 0)
  /\ pc' = "upload"
  /\ UNCHANGED <<envVars, config, isConnected, files, progress, stats, scanVars,
                 filesToUpload, filesSkipped, processedRemotePaths, analysisCount,
                 commitVars, stale, runs, obsVars>>

(***************************************************************************)
(* The upload tasks of Promise.all(chunk.map(...)), lines 325-350.  A task *)
(* is "read" while readFileAsBase64 is awaited, "blob" while gh.createBlob *)
(* is awaited, then "done" or "failed".  A task goes on after Promise.all  *)
(* has rejected: nothing cancels it.                                       *)
(***************************************************************************)
InFlight(t) == { k \in DOMAIN t : t[k] \in {"read", "blob"} }

\* readFileAsBase64 resolves; gh.createBlob is called
TaskReadOk(k) ==
  /\ k \in DOMAIN tasks /\ tasks[k] = "read"
  /\ tasks' = [tasks EXCEPT ![k] = "blob"]
  /\ calls' = [calls EXCEPT !.createBlob = @ + 1]
  /\ UNCHANGED <<envVars, uiVars, pc, scanVars, planVars, newTree, completedOps,
                 uploadedPaths, chunkStart, commitVars, stale, runs, refDone, headAtStart, hashFailed,
                 genOutcome, pureVars>>

\* gh.createBlob returns the id of the blob: its Git blob id
TaskBlobOk(k) ==
  /\ k \in DOMAIN tasks /\ tasks[k] = "blob"
  /\ LET item == filesToUpload[k]
     IN /\ newTree' = Append(newTree,
                        Blob(item.remotePath, "100644",
                             computeGitBlobSha(item.file.content)))
        /\ uploadedPaths' = Append(uploadedPaths, item.remotePath)
        /\ logs' = IF ~item.isNew
                   THEN addLog(logs, "Updating", "warning", item.remotePath)
                   ELSE logs
  /\ completedOps' = completedOps + 1
  /\ stats' = [stats EXCEPT !.uploaded = completedOps + 1]
  /\ progress' = UploadProgress(completedOps + 1, Len(filesToUpload))
  /\ tasks' = [tasks EXCEPT ![k] = "done"]
  /\ UNCHANGED <<envVars, config, isConnected, files, syncState, pc, scanVars,
                 planVars, chunkStart, commitVars, stale, runs, obsVars>>

\* a faulty variant: the catch of a task logs the failure and does not rethrow it
TaskCatchWithoutRethrow(k, reason) ==
  /\ tasks' = [tasks EXCEPT ![k] = "failed"]
  /\ logs' = addLog(logs, "Failed upload", "error", filesToUpload[k].remotePath)
  /\ UNCHANGED <<syncState, pc>>
  /\ UNCHANGED <<envVars, config, isConnected, files, progress, stats, scanVars,
                 planVars, newTree, completedOps, uploadedPaths, chunkStart,
                 commitVars, stale, runs, obsVars>>

\* the catch of a task, then (for the first failure of the chunk) the
\* rejection of Promise.all and the catch block of startSync
TaskCatch(k, reason) ==
  /\ tasks' = [tasks EXCEPT ![k] = "failed"]
  /\ IF pc = "upload"
     THEN Catch(addLog(logs, "Failed upload", "error", filesToUpload[k].remotePath),
                reason)
     ELSE /\ logs' = addLog(logs, "Failed upload", "error", filesToUpload[k].remotePath)
          /\ UNCHANGED <<syncState, pc>>
  /\ UNCHANGED <<envVars, config, isConnected, files, progress, stats, scanVars,
                 planVars, newTree, completedOps, uploadedPaths, chunkStart,
                 commitVars, stale, runs, obsVars>>

\* readFileAsBase64 rejects
TaskReadFail(k) ==
  /\ k \in DOMAIN tasks /\ tasks[k] = "read"
  /\ filesToUpload[k].file.flaky
  /\ TaskCatch(k, "Error: file read failed")

\* gh.createBlob throws
TaskBlobFail(k) ==
  /\ k \in DOMAIN tasks /\ tasks[k] = "blob"
  /\ filesToUpload[k].file.flaky
  /\ TaskCatch(k, "Error: createBlob failed")

\* a faulty variant: the loop goes on as soon as one upload of the chunk is done
ChunkDoneAtFirst ==
  \E k \in ChunkIndices(chunkStart, Len(filesToUpload)) : tasks[k] = "done"

\* await Promise.all(chunk.map(...)) resolves: every task of the chunk is done
ChunkDone ==
  \A k \in ChunkIndices(chunkStart, Len(filesToUpload)) : tasks[k] = "done"

\* Promise.all resolves and the for loop starts the next chunk
NextChunk ==
  /\ pc = "upload"
  /\ ChunkDone
  /\ chunkStart + CHUNK_SIZE < Len(filesToUpload)
  /\ chunkStart' = chunkStart + CHUNK_SIZE
  /\ tasks' = StartChunk(tasks, chunkStart + CHUNK_SIZE)
  /\ UNCHANGED <<envVars, uiVars, pc, scanVars, planVars, newTree, completedOps,
                 uploadedPaths, commitVars, stale, runs, obsVars>>

\* lines 353-380: the for loop is left, the final tree is assembled and the
\* commit message is asked for, or gh.createTree is called
AssembleTree ==
  /\ pc = "upload"
  /\ ChunkDone
  /\ chunkStart + CHUNK_SIZE >= Len(filesToUpload)
  /\ finalTree' = AssembleFinalTree(config, baseTreeData, newTree, uploadedPaths,
                                    filesToDelete, processedRemotePaths)
  /\ syncState' = "COMMITTING"
  /\ progress' = 95
  /\ commitMessage' = TemplateMessage(Len(filesToUpload))
  /\ IF config.autoCommitMessage
     THEN pc' = "genMsg" /\ calls' = calls
     ELSE pc' = "createTree" /\ calls' = [calls EXCEPT !.createTree = @ + 1]
  /\ UNCHANGED <<envVars, config, isConnected, files, stats, logs, scanVars,
                 planVars, uploadVars, newTreeSha, newCommitSha, stale, runs, refDone, headAtStart, hashFailed,
                 genOutcome, pureVars>>

\* geminiService.generateCommitMessage: what it returns when there is no API
\* key ("nokey"), when the generation call throws ("threw") and when the call
\* returns a text ("ok"); it never throws
GeneratorReturn(outcome) ==
  CASE outcome = "nokey" -> [text |-> "chore: sync files via GitSync Mobile", n |-> 0]
    [] outcome = "threw" -> [text |-> "chore: batch update via GitSync Mobile", n |-> 0]
    [] outcome = "ok" -> [text |-> "generated", n |-> 0]

\* commitMessage = await generateCommitMessage(...); gh.createTree is called
GenerateCommitMessage ==
  /\ pc = "genMsg"
  /\ \E outcome \in {"nokey", "threw", "ok"} :
       /\ genOutcome' = outcome
       /\ commitMessage' = GeneratorReturn(outcome)
  /\ pc' = "createTree"
  /\ calls' = [calls EXCEPT !.createTree = @ + 1]
  /\ UNCHANGED <<envVars, uiVars, scanVars, planVars, uploadVars, finalTree,
                 newTreeSha, newCommitSha, stale, runs, refDone, headAtStart,
                 hashFailed, pureVars>>

\* gh.createTree returns; gh.createCommit is called
CreateTreeOk ==
  /\ pc = "createTree"
  /\ treeObjs' = Append(treeObjs, finalTree)
  /\ newTreeSha' = Len(treeObjs) + 1
  /\ pc' = "createCommit"
  /\ calls' = [calls EXCEPT !.createCommit = @ + 1]
  /\ UNCHANGED <<folder, remoteHead, commitObjs, uiVars, scanVars,
                 planVars, uploadVars, finalTree, commitMessage, newCommitSha,
                 stale, runs, refDone, headAtStart, hashFailed,
                 genOutcome, pureVars>>

CreateTreeFail ==
  /\ pc = "createTree"
  /\ Catch(logs, "Error: createTree failed")
  /\ UNCHANGED <<envVars, config, isConnected, files, progress, stats, scanVars,
                 planVars, uploadVars, commitVars, stale, runs, obsVars>>

\* a faulty variant: the commit is made of the first tree of the repository
CreateCommitOkOfFirstTree ==
  /\ pc = "createCommit"
  /\ commitObjs' = Append(commitObjs,
                     [tree |-> 1, parents |-> CommitParents(latestCommitSha),
                      message |-> commitMessage, by |-> "sync"])
  /\ newCommitSha' = Len(commitObjs) + 1
  /\ pc' = "ref"
  /\ calls' = [calls EXCEPT ![RefCallKind(latestCommitSha)] = @ + 1]
  /\ UNCHANGED <<folder, remoteHead, treeObjs, uiVars, scanVars,
                 planVars, uploadVars, finalTree, commitMessage, newTreeSha,
                 stale, runs, refDone, headAtStart, hashFailed,
                 genOutcome, pureVars>>

\* gh.createCommit returns; gh.updateRef or gh.createRef is called
CreateCommitOk ==
  /\ pc = "createCommit"
  /\ commitObjs' = Append(commitObjs,
                     [tree |-> newTreeSha, parents |-> CommitParents(latestCommitSha),
                      message |-> commitMessage, by |-> "sync"])
  /\ newCommitSha' = Len(commitObjs) + 1
  /\ pc' = "ref"
  /\ calls' = [calls EXCEPT ![RefCallKind(latestCommitSha)] = @ + 1]
  /\ UNCHANGED <<folder, remoteHead, treeObjs, uiVars, scanVars,
                 planVars, uploadVars, finalTree, commitMessage, newTreeSha,
                 stale, runs, refDone, headAtStart, hashFailed,
                 genOutcome, pureVars>>

CreateCommitFail ==
  /\ pc = "createCommit"
  /\ Catch(logs, "Error: createCommit failed")
  /\ UNCHANGED <<envVars, config, isConnected, files, progress, stats, scanVars,
                 planVars, uploadVars, commitVars, stale, runs, obsVars>>

\* a faulty variant: the remote accepts the ref call and a later statement throws
RefOkThenThrow ==
  /\ pc = "ref"
  /\ IF RefCallKind(latestCommitSha) = "updateRef"
     THEN UpdateRefAccepted(newCommitSha)
     ELSE CreateRefAccepted
  /\ remoteHead' = newCommitSha
  /\ refDone' = RefCallKind(latestCommitSha)
  /\ Catch(logs, "Error: after the ref call")
  /\ UNCHANGED <<folder, commitObjs, treeObjs, config, isConnected,
                 files, progress, stats, scanVars, planVars, uploadVars, commitVars,
                 stale, runs, calls, headAtStart, hashFailed,
                 genOutcome, pureVars>>

\* the remote accepts the ref call; lines 390-392
RefOk ==
  /\ pc = "ref"
  /\ IF RefCallKind(latestCommitSha) = "updateRef"
     THEN UpdateRefAccepted(newCommitSha)
     ELSE CreateRefAccepted
  /\ remoteHead' = newCommitSha
  /\ refDone' = RefCallKind(latestCommitSha)
  /\ syncState' = "SUCCESS"
  /\ progress' = 100
  /\ logs' = addLog(logs, "Sync completed successfully.", "success", <<>>)
  /\ pc' = "done"
  /\ UNCHANGED <<folder, commitObjs, treeObjs, config, isConnected,
                 files, stats, scanVars, planVars, uploadVars, commitVars, stale, runs, calls, headAtStart, hashFailed,
                 genOutcome, pureVars>>

\* the ref call throws: rejected by the remote, or not delivered
RefFail ==
  /\ pc = "ref"
  /\ Catch(logs, "Error: ref call failed")
  /\ UNCHANGED <<envVars, config, isConnected, files, progress, stats, scanVars,
                 planVars, uploadVars, commitVars, stale, runs, obsVars>>

(***************************************************************************)
(* handleBackToDashboard: the button of the progress screen, shown once    *)
(* the stage is SUCCESS or ERROR.  The closure of the finished call is     *)
(* garbage unless uploads of it are still in flight.                       *)
(***************************************************************************)
\* what the uploads still in flight keep of the closure: a task that has
\* settled plays no further part, and of an unsettled one only the outcome of
\* its remaining awaits is seen
StaleClosure ==
  [tasks |-> [k \in DOMAIN tasks |->
                IF tasks[k] \in {"read", "blob"} THEN "blob" ELSE "done"],
   items |-> [k \in DOMAIN filesToUpload |->
                [remotePath |-> filesToUpload[k].remotePath,
                 isNew |-> filesToUpload[k].isNew,
                 flaky |-> filesToUpload[k].file.flaky]],
   completedOps |-> completedOps]

HandleBackToDashboard ==
  /\ syncState \in {"SUCCESS", "ERROR"}
  /\ syncState' = "IDLE"
  /\ files' = <<>>
  /\ stats' = [total |-> 0, scanned |-> 0, uploaded |-> 0]
  /\ logs' = <<>>
  /\ progress' = 0
  /\ stale' = IF InFlight(tasks) /= {} THEN Append(stale, StaleClosure) ELSE stale
  /\ ResetClosure
  /\ UNCHANGED <<envVars, config, isConnected, runs, pureVars>>

\* an upload task of an earlier startSync call: it updates the React state
\* through the setters its closure holds
RemoveAt(s, j) == SubSeq(s, 1, j - 1) \o SubSeq(s, j + 1, Len(s))

Settle(j, c) ==
  IF InFlight(c.tasks) = {} THEN RemoveAt(stale, j) ELSE [stale EXCEPT ![j] = c]

StaleBlobOk(j, k) ==
  /\ j \in DOMAIN stale /\ k \in DOMAIN stale[j].tasks /\ stale[j].tasks[k] = "blob"
  /\ LET c == stale[j]
     IN /\ logs' = IF ~c.items[k].isNew
                   THEN addLog(logs, "Updating", "warning", c.items[k].remotePath)
                   ELSE logs
        /\ stats' = [stats EXCEPT !.uploaded = c.completedOps + 1]
        /\ progress' = UploadProgress(c.completedOps + 1, Len(c.items))
        /\ stale' = Settle(j, [c EXCEPT !.tasks[k] = "done",
                                        !.completedOps = @ + 1])
  /\ UNCHANGED <<envVars, config, isConnected, files, syncState, pc, scanVars,
                 planVars, uploadVars, commitVars, runs, obsVars>>

\* a faulty variant: the failure of a task of an abandoned run sets the stage
StaleFailSettingStage(j, k) ==
  /\ j \in DOMAIN stale /\ k \in InFlight(stale[j].tasks)
  /\ stale[j].items[k].flaky
  /\ logs' = addLog(logs, "Failed upload", "error", stale[j].items[k].remotePath)
  /\ syncState' = "ERROR"
  /\ stale' = Settle(j, [stale[j] EXCEPT !.tasks[k] = "done"])
  /\ UNCHANGED <<envVars, config, isConnected, files, progress, stats,
                 pc, scanVars, planVars, uploadVars, commitVars, runs, obsVars>>

StaleFail(j, k) ==
  /\ j \in DOMAIN stale /\ k \in InFlight(stale[j].tasks)
  /\ stale[j].items[k].flaky
  /\ logs' = addLog(logs, "Failed upload", "error", stale[j].items[k].remotePath)
  /\ stale' = Settle(j, [stale[j] EXCEPT !.tasks[k] = "done"])
  /\ UNCHANGED <<envVars, config, isConnected, files, syncState, progress, stats,
                 pc, scanVars, planVars, uploadVars, commitVars, runs, obsVars>>

(***************************************************************************)
(* Another writer of the same branch: it pushes a commit on top of the     *)
(* head, or creates the branch, after this run has resolved the head and   *)
(* before its ref call is served.  The run reads nothing of the branch in  *)
(* between, so the push is taken at the latest such point.                 *)
(***************************************************************************)
ExternalCommits == { c \in DOMAIN commitObjs : commitObjs[c].by = "other" }

ExternalPush ==
  /\ Cardinality(ExternalCommits) < MaxExternal
  /\ pc = "ref"
  /\ treeObjs' = Append(treeObjs,
                   IF remoteHead = NoCommit THEN <<>> ELSE TreeOfCommit(remoteHead))
  /\ commitObjs' = Append(commitObjs,
                     [tree |-> Len(treeObjs) + 1, parents |-> CommitParents(remoteHead),
                      message |-> NoMessage, by |-> "other"])
  /\ remoteHead' = Len(commitObjs) + 1
  /\ UNCHANGED <<folder, uiVars, pc, scanVars, planVars, uploadVars, commitVars,
                 stale, runs, obsVars>>

Next ==
  \/ HandleConnect
  \/ HandleFolderSelect
  \/ StartSyncNoFiles
  \/ StartSync
  \/ GetRefOk
  \/ GetRefFail
  \/ GetTreeOk
  \/ GetTreeFail
  \/ AnalyzeFile
  \/ FinishAnalysisUpToDate
  \/ FinishAnalysisStartUpload
  \/ \E k \in DOMAIN tasks : TaskReadOk(k)
  \/ \E k \in DOMAIN tasks : TaskBlobOk(k)
  \/ \E k \in DOMAIN tasks : TaskReadFail(k)
  \/ \E k \in DOMAIN tasks : TaskBlobFail(k)
  \/ NextChunk
  \/ AssembleTree
  \/ GenerateCommitMessage
  \/ CreateTreeOk
  \/ CreateTreeFail
  \/ CreateCommitOk
  \/ CreateCommitFail
  \/ RefOk
  \/ RefFail
  \/ HandleBackToDashboard
  \/ \E j \in DOMAIN stale : \E k \in DOMAIN stale[j].tasks : StaleBlobOk(j, k)
  \/ \E j \in DOMAIN stale : \E k \in DOMAIN stale[j].tasks : StaleFail(j, k)
  \/ ExternalPush

Spec == Init /\ [][Next]_vars

SpecBatch == InitBatch /\ [][Next]_vars

\* the steps of a startSync call after its first await: every awaited remote
\* call or file read returns, with a result or with a failure, and the code
\* between two awaits runs to the next one
RunStep ==
  \/ GetRefOk \/ GetRefFail
  \/ GetTreeOk \/ GetTreeFail
  \/ AnalyzeFile
  \/ FinishAnalysisUpToDate \/ FinishAnalysisStartUpload
  \/ \E k \in DOMAIN tasks :
       TaskReadOk(k) \/ TaskBlobOk(k) \/ TaskReadFail(k) \/ TaskBlobFail(k)
  \/ NextChunk
  \/ AssembleTree
  \/ GenerateCommitMessage
  \/ CreateTreeOk \/ CreateTreeFail
  \/ CreateCommitOk \/ CreateCommitFail
  \/ RefOk \/ RefFail

\* the runs followed to their end: every folder of the device files, the
\* remote absent or of one entry, and the folder of two upload batches
LiveConfigs ==
  [ targetPath : { <<>> },
    deleteMissing : BOOLEAN,
    autoCommitMessage : BOOLEAN ]

InitLive ==
  \/ InitWith(Folders(MaxFiles), LiveConfigs, Remotes(1))
  \/ InitWith({BatchFolder(CHUNK_SIZE + 1, {})}, BatchConfigs, AbsentRemote)

\* the same runs, and the folder on which a second call is followed
InitRuns ==
  \/ InitLive
  \/ InitWith({RerunFolder}, BatchConfigs, AbsentRemote)

SpecRuns == InitRuns /\ [][Next]_vars

SpecLive == InitLive /\ [][Next]_vars /\ WF_vars(RunStep)

(***************************************************************************)
(* sanitizeGitPath and parseRepoUrl on their own: an argument is drawn, the *)
(* function is called, the result is kept.                                 *)
(***************************************************************************)
MaxPathLen == 5

PathAlphabet == {"/", "\\", ".", "a"}

RawPaths ==
  UNION { [1..n -> PathAlphabet] : n \in 0..MaxPathLen }
    \cup { <<"a", "\\", "b", "/", "/", "c", "/">>,
           <<".", ".", "/", ".", ".", "/", "x">> }

UrlHosts ==
  { GitHubCom,
    GitHubCom \o <<".", "e", "v">>,
    <<"x">> \o GitHubCom,
    <<"e", "v", ".", "i", "o">> }

UrlPaths ==
  { <<>>,
    <<"/", "o">>,
    <<"/", "o", "/", "r">>,
    <<"/", "o", "/", "r", "/">>,
    <<"/", "o", "/", "r">> \o DotGit,
    <<"/", "o", "/", "r">> \o DotGit \o <<"/">>,
    <<"/", "/", "r">>,
    <<"/", "o", "/", "r", "/", "x">> }

RepoUrls ==
  { scheme \o host \o path :
      scheme \in {<<>>, HttpScheme, HttpsScheme}, host \in UrlHosts, path \in UrlPaths }
    \cup { <<>>,
           <<"o">>,
           <<"o", "/", "r">>,
           <<" ", "o", "/", "r", " ">>,
           <<"o", "/", "r">> \o DotGit,
           <<"o", "/", "r", "/", "x">>,
           <<"/", "r">>,
           <<"/">>,
           Http \o <<"/", "o">> }

InitPure ==
  /\ InitApp({<<>>}, BatchConfigs, AbsentRemote)
  /\ pathResult = NotCalled
  /\ urlResult = NotCalled
  /\ \/ pathArg \in RawPaths /\ urlArg = <<>>
     \/ pathArg = <<>> /\ urlArg \in RepoUrls

CallSanitizeGitPath ==
  /\ pathResult = NotCalled
  /\ pathResult' = [value |-> sanitizeGitPath(pathArg)]
  /\ UNCHANGED <<envVars, uiVars, pc, scanVars, planVars, uploadVars, commitVars,
                 stale, runs, calls, refDone, headAtStart, hashFailed, genOutcome,
                 pathArg, urlArg, urlResult>>

CallParseRepoUrl ==
  /\ urlResult = NotCalled
  /\ urlResult' = [value |-> parseRepoUrl(urlArg)]
  /\ UNCHANGED <<envVars, uiVars, pc, scanVars, planVars, uploadVars, commitVars,
                 stale, runs, calls, refDone, headAtStart, hashFailed, genOutcome,
                 pathArg, pathResult, urlArg>>

NextPure == CallSanitizeGitPath \/ CallParseRepoUrl

SpecPure == InitPure /\ [][NextPure]_vars

(***************************************************************************)
(* Properties.                                                             *)
(***************************************************************************)
HasLog(message, type) ==
  \E i \in DOMAIN logs : logs[i].message = message /\ logs[i].type = type

RefCalls == calls.createRef + calls.updateRef

\* C1: a run that ends in the Error stage has completed no createRef or
\* updateRef call, so the branch still points where it pointed when the run
\* started (or where another writer has moved it, never at a commit of this
\* run); and once a ref call of the run has completed the run is in Success
\* with nothing of it left running: no call follows the ref call and nothing
\* after it fails.
C1_FailedRunLeavesBranch ==
  /\ syncState = "ERROR" =>
       /\ refDone = "none"
       /\ remoteHead = headAtStart \/ remoteHead \in ExternalCommits
       /\ newCommitSha /= NoCommit => remoteHead /= newCommitSha
  /\ refDone /= "none" =>
       /\ syncState = "SUCCESS"
       /\ pc = "done"
       /\ InFlight(tasks) = {}

\* C1 witness: a run whose ref call was issued and that ended in Error
C1_Witness ==
  /\ syncState = "ERROR"
  /\ RefCalls = 1
  /\ newCommitSha /= NoCommit
  /\ ExternalCommits = {}

\* C3: with deleteMissing on and a truncated listing the delete set is empty
\* whatever the listing holds, and the run has logged a warning.
C3_TruncatedDisablesDelete ==
  (config.deleteMissing /\ baseTreeData.truncated) =>
    /\ filesToDelete = <<>>
    /\ HasLog("Repo too large. Delete missing disabled safely.", "warning")

\* C3 witness: the analysis is over on a truncated listing that holds a blob no
\* local file matched, in the scope of the target prefix
C3_Witness ==
  /\ config.deleteMissing /\ baseTreeData.truncated
  /\ pc \in {"upload", "done"}
  /\ \E i \in DOMAIN baseTreeData.tree :
       /\ baseTreeData.tree[i].type = "blob"
       /\ baseTreeData.tree[i].path \notin processedRemotePaths
       /\ startsWith(baseTreeData.tree[i].path, TargetPrefix(config.targetPath))

\* the classes of the analysis, as sets of remote paths
LocalPaths(n) == { RemotePathOf(config.targetPath, files[i]) : i \in 1..n }

UnchangedPaths == SeqRange(filesSkipped)

NewPaths ==
  { filesToUpload[i].remotePath : i \in { j \in DOMAIN filesToUpload : filesToUpload[j].isNew } }

ModifiedPaths ==
  { filesToUpload[i].remotePath : i \in { j \in DOMAIN filesToUpload : ~filesToUpload[j].isNew } }

\* C2: the analysis loop puts the remote path of every local file analysed so
\* far into exactly one of the classes unchanged, new and modified: the three
\* classes are pairwise disjoint and their union is the set of local paths.
C2_ClassesPartitionPaths ==
  /\ UnchangedPaths \cap NewPaths = {}
  /\ UnchangedPaths \cap ModifiedPaths = {}
  /\ NewPaths \cap ModifiedPaths = {}
  /\ UnchangedPaths \cup NewPaths \cup ModifiedPaths = LocalPaths(analysisCount)

\* the listing the run fetched in Scanning has, at the remote path of every
\* local file, a blob whose id is the file's content address
EveryFileMatchesListing ==
  \A i \in DOMAIN files :
    RemoteFileMapGet(baseTreeData.tree, RemotePathOf(config.targetPath, files[i]))
      = computeGitBlobSha(files[i].content)

\* the listing has no blob under the target prefix other than those of the
\* local files
NoOtherBlobInScope ==
  \A j \in DOMAIN baseTreeData.tree :
    (/\ baseTreeData.tree[j].type = "blob"
     /\ startsWith(baseTreeData.tree[j].path, TargetPrefix(config.targetPath)))
    => baseTreeData.tree[j].path \in LocalPaths(Len(files))

AnalysisEntered == pc \notin {"idle", "getRef", "getTree"}

NoOpOutcome ==
  /\ calls = NoCalls
  /\ filesToUpload = <<>>
  /\ filesToDelete = <<>>
  /\ syncState \in {"ANALYZING", "SUCCESS"}
  /\ pc = "done" =>
       /\ syncState = "SUCCESS"
       /\ HasLog("Remote is already up to date!", "success")
  /\ remoteHead = headAtStart

\* C4 as stated: when every local file has a blob of equal content address at
\* its remote path in the listing and the listing has no other blob in scope,
\* the run issues no createBlob, createTree, createCommit, createRef or
\* updateRef call, its delete set is empty and it ends in Success.
C4_NoOpAsStated ==
  (AnalysisEntered /\ EveryFileMatchesListing /\ NoOtherBlobInScope) => NoOpOutcome

\* C4 amended: the same, for the runs in which the content address of every
\* local file analysed so far could be computed (a file whose hash cannot be
\* computed is uploaded as modified).
C4_NoOpWhenHashesComputed ==
  (AnalysisEntered /\ EveryFileMatchesListing /\ NoOtherBlobInScope /\ ~hashFailed)
    => NoOpOutcome

\* C4 witness: a run over an existing branch has skipped its file, the one blob
\* of the listing under the target prefix, and is over
C4_Witness ==
  /\ pc = "done" /\ syncState = "SUCCESS"
  /\ latestCommitSha /= NoCommit
  /\ Len(files) = 1 /\ Len(filesSkipped) = 1
  /\ Len(baseTreeData.tree) > 1
  /\ EveryFileMatchesListing /\ NoOtherBlobInScope /\ ~hashFailed

FirstPushOutcome ==
  /\ baseTreeData = EmptyBase
  /\ latestCommitSha = NoCommit
  /\ filesSkipped = <<>>
  /\ filesToDelete = <<>>
  /\ \A i \in DOMAIN filesToUpload : filesToUpload[i].isNew
  /\ Len(filesToUpload) = analysisCount
  /\ pc /= "loop" => Len(filesToUpload) = Len(files)
  /\ calls.updateRef = 0
  /\ newCommitSha /= NoCommit => commitObjs[newCommitSha].parents = <<>>
  /\ syncState = "SUCCESS" =>
       /\ calls.createBlob = Len(files)
       /\ calls.createRef = 1
       /\ refDone = "createRef"
       /\ remoteHead = newCommitSha
       /\ commitObjs[remoteHead].parents = <<>>
       /\ Len(TreeOfCommit(remoteHead)) = Len(files)
       /\ \A i \in DOMAIN files :
            \E e \in SeqRange(TreeOfCommit(remoteHead)) :
              /\ e.path = RemotePathOf(config.targetPath, files[i])
              /\ e.sha = computeGitBlobSha(files[i].content)

OtherListedBlobs ==
  { j \in DOMAIN baseTreeData.tree :
      /\ baseTreeData.tree[j].type = "blob"
      /\ baseTreeData.tree[j].path \notin SeqRange(uploadedPaths) }

C6_Outcome ==
  /\ calls.createBlob = Len(filesToUpload)
  /\ calls.createTree = 1
  /\ calls.createCommit = 1
  /\ newTreeSha = commitObjs[newCommitSha].tree
  /\ commitObjs[newCommitSha].parents = <<latestCommitSha>>
  /\ latestCommitSha = headAtStart
  /\ calls.updateRef = 1 /\ calls.createRef = 0
  /\ refDone = "updateRef"
  /\ remoteHead = newCommitSha
  /\ LET tree == TreeOfCommit(newCommitSha)
     IN /\ Len(tree) = Len(filesToUpload) + Cardinality(OtherListedBlobs)
        /\ \A i \in DOMAIN filesToUpload :
             \E e \in SeqRange(tree) :
               /\ e.path = filesToUpload[i].remotePath
               /\ e.type = "blob"
               /\ e.sha = computeGitBlobSha(filesToUpload[i].file.content)
        /\ \A j \in OtherListedBlobs :
             \E e \in SeqRange(tree) :
               /\ e.path = baseTreeData.tree[j].path
               /\ e.type = "blob"
               /\ e.sha = baseTreeData.tree[j].sha
               /\ e.mode = baseTreeData.tree[j].mode

\* C6 as stated: every successful run over an existing branch with
\* deleteMissing off has issued one createBlob per new or modified file, has
\* created exactly one tree and one commit whose only parent is the head
\* resolved in Scanning, has moved the branch with updateRef and never called
\* createRef, and the tree holds one entry per upload plus every other blob
\* entry of the listing with its id and mode.
C6_EverySuccessfulRunCommits ==
  (syncState = "SUCCESS" /\ latestCommitSha /= NoCommit /\ ~config.deleteMissing)
    => C6_Outcome

\* C6 amended: the same for the successful runs that found a file to upload (a
\* run that finds nothing to upload succeeds without a tree, commit or ref call).
C6_SuccessfulUploadRunCommits ==
  (/\ syncState = "SUCCESS" /\ latestCommitSha /= NoCommit /\ ~config.deleteMissing
   /\ filesToUpload /= <<>>)
    => C6_Outcome

\* C6 witness: a run has succeeded with one file uploaded, one skipped and a
\* blob of the listing carried over
C6_Witness ==
  /\ syncState = "SUCCESS" /\ latestCommitSha /= NoCommit /\ ~config.deleteMissing
  /\ Len(filesToUpload) = 1 /\ Len(filesSkipped) = 1
  /\ \E j \in OtherListedBlobs : baseTreeData.tree[j].path \notin UnchangedPaths

\* the batch an upload belongs to, by its place in the upload list
BatchOf(k) == (k - 1) \div 5

\* C7: uploads run in consecutive batches of at most 5 taken in upload-list
\* order: the uploads of one batch are started together, an upload is started
\* only when every upload of every earlier batch is done, and at most 5
\* uploads of the run are in flight.
C7_SequentialBatches ==
  /\ Cardinality(InFlight(tasks)) <= 5
  /\ \A j, k \in DOMAIN tasks :
       (BatchOf(j) < BatchOf(k) /\ tasks[k] /= "pending") => tasks[j] = "done"
  /\ \A j, k \in DOMAIN tasks :
       BatchOf(j) = BatchOf(k) => (tasks[j] = "pending" <=> tasks[k] = "pending")

\* C7 witness: of eleven uploads the third batch, the eleventh upload alone, is
\* in flight
C7_Witness ==
  /\ Len(tasks) = 11
  /\ InFlight(tasks) = {11}

\* C8: when an upload of the run has failed (its read or its createBlob call),
\* every upload of a later batch is still not started, no createTree,
\* createCommit, createRef or updateRef call has been issued, and the run is
\* over in Error with the failure logged.
C8_FailedUploadAbortsRun ==
  \A k \in DOMAIN tasks :
    tasks[k] = "failed" =>
      /\ \A j \in DOMAIN tasks : BatchOf(j) > BatchOf(k) => tasks[j] = "pending"
      /\ calls.createTree = 0 /\ calls.createCommit = 0
      /\ calls.createRef = 0 /\ calls.updateRef = 0
      /\ syncState = "ERROR" /\ pc = "done"
      /\ \E i \in DOMAIN logs :
           /\ logs[i].type = "error"
           /\ logs[i].message = "Failed upload"
           /\ logs[i].path = filesToUpload[k].remotePath
      /\ \/ HasLog("Error: file read failed", "error")
         \/ HasLog("Error: createBlob failed", "error")

\* C8 witness: an upload of the second batch has failed, the other uploads of
\* that batch have settled and the third batch is not started
C8_Witness ==
  /\ Len(tasks) = 11
  /\ \E k \in 6..10 : tasks[k] = "failed"
  /\ InFlight(tasks) = {}
  /\ tasks[11] = "pending"
  /\ syncState = "ERROR"

StageRank(stage) ==
  CASE stage = "IDLE" -> 0
    [] stage = "SCANNING" -> 1
    [] stage = "ANALYZING" -> 2
    [] stage = "UPLOADING" -> 3
    [] stage = "COMMITTING" -> 4
    [] stage \in {"SUCCESS", "ERROR"} -> 5

\* C9: within a run every change of the stage is to a later stage of Idle,
\* Scanning, Analyzing, Uploading, Committing, Success or Error, and there is
\* no change of stage out of Success or Error; the one step that is not of a
\* run, the user's return to the dashboard, is left out.
C9_StageMovesForward ==
  [][ \/ HandleBackToDashboard
      \/ /\ StageRank(syncState) <= StageRank(syncState')
         /\ syncState \in {"SUCCESS", "ERROR"} => syncState' = syncState ]_vars

\* C9 witness: the run is over in Error while uploads it started are in flight
C9_Witness ==
  /\ syncState = "ERROR"
  /\ pc = "done"
  /\ InFlight(tasks) /= {}

\* C10: a failure of the work of Scanning (getRef or getTreeRecursive failing
\* for a reason other than a missing branch) has moved the run to Error.
C10_ScanFailureMovesToError ==
  scanError = "other" => syncState = "ERROR"

\* no step of a run moves the stage from Scanning or Analyzing to Error
NoErrorFromScanningOrAnalyzing ==
  [][ ~(syncState \in {"SCANNING", "ANALYZING"} /\ syncState' = "ERROR") ]_vars

\* C11: the final tree passed to createTree has no two entries of one path,
\* and an entry at an uploaded path is the uploaded one, not the entry the
\* listing had at that path.
C11_FinalTreePathsDistinct ==
  /\ \A i, j \in DOMAIN finalTree :
       i /= j => finalTree[i].path /= finalTree[j].path
  /\ \A i \in DOMAIN finalTree :
       finalTree[i].path \in SeqRange(uploadedPaths) => i <= Len(newTree)

\* the target prefix as the specification has it: the normalized target
\* subdirectory followed by one slash, or nothing when it normalizes to the
\* empty path
NormalizedPrefix(targetPath) ==
  IF sanitizeGitPath(targetPath) = <<>> THEN <<>>
  ELSE sanitizeGitPath(targetPath) \o <<"/">>

DeletePaths == SeqRange(filesToDelete)

\* the blob paths of the listing under prefix
ListedBlobPathsUnder(prefix) ==
  { baseTreeData.tree[j].path :
      j \in { i \in DOMAIN baseTreeData.tree :
                /\ baseTreeData.tree[i].type = "blob"
                /\ startsWith(baseTreeData.tree[i].path, prefix) } }

\* C12: the delete set is disjoint from the unchanged, new and modified path
\* sets and is a subset of the blob paths of the listing under the target
\* prefix; the union of unchanged, new and modified is the set of the prefixed
\* normalized paths of the local files analysed so far.
C12_DeleteSetDisjointAndScoped ==
  /\ DeletePaths \cap (UnchangedPaths \cup NewPaths \cup ModifiedPaths) = {}
  /\ DeletePaths \subseteq ListedBlobPathsUnder(NormalizedPrefix(config.targetPath))
  /\ UnchangedPaths \cup NewPaths \cup ModifiedPaths = LocalPaths(analysisCount)

\* C12 witness: the analysis is over with a path to delete, a file skipped and
\* a file to upload
C12_Witness ==
  /\ pc \in {"upload", "done"}
  /\ filesToDelete /= <<>>
  /\ filesSkipped /= <<>>
  /\ filesToUpload /= <<>>

\* C13: with autoCommitMessage on, when the message generator had no API key
\* or its generation call threw, the run goes on to createTree in the
\* Committing stage, and its commit message, the one its commit is created
\* with, is the template "chore: sync <N> files" with N the number of files to
\* upload.
C13_GeneratorFailureGivesTemplate ==
  (config.autoCommitMessage /\ genOutcome \in {"nokey", "threw"}) =>
    /\ pc = "createTree" => syncState = "COMMITTING"
    /\ commitMessage = TemplateMessage(Len(filesToUpload))
    /\ newCommitSha /= NoCommit =>
         commitObjs[newCommitSha].message = TemplateMessage(Len(filesToUpload))

\* C14: a run is in first-push mode (analysis entered with no head resolved)
\* only if the branch did not exist when the run started, and a run whose
\* getRef failed for another reason, so that no head is resolved, is in Error.
C14_FirstPushOnlyForMissingBranch ==
  /\ (AnalysisEntered /\ latestCommitSha = NoCommit) => headAtStart = NoCommit
  /\ (scanError = "other" /\ latestCommitSha = NoCommit) => syncState = "ERROR"

\* C15: sanitizeGitPath is idempotent: applied to what it returned it returns
\* the same path; and "a\b//c/" gives "a/b/c", "../../x" gives "x" and the
\* empty path gives the empty path.
C15_SanitizeIdempotent ==
  pathResult /= NotCalled =>
    /\ sanitizeGitPath(pathResult.value) = pathResult.value
    /\ pathArg = <<"a", "\\", "b", "/", "/", "c", "/">>
         => pathResult.value = <<"a", "/", "b", "/", "c">>
    /\ pathArg = <<".", ".", "/", ".", ".", "/", "x">> => pathResult.value = <<"x">>
    /\ pathArg = <<>> => pathResult.value = <<>>

\* C15 witness: the call has returned for a path with a backslash, a dot
\* segment and doubled slashes that it had to rewrite
C15_Witness ==
  /\ pathResult /= NotCalled
  /\ pathArg = <<"\\", ".", "/", "/", "a">>
  /\ pathResult.value = <<"a">>

\* C16: a run that has left Idle reaches Success or Error when every awaited
\* call and read returns; the step that reaches Success appends a log entry
\* of type success and the step that reaches Error one of type error.
Terminal == {"SUCCESS", "ERROR"}

C16_RunEndsReported ==
  /\ (syncState \notin Terminal \cup {"IDLE"}) ~> (syncState \in Terminal)
  /\ [][ (syncState \notin Terminal /\ syncState' \in Terminal) =>
           /\ Len(logs') > Len(logs)
           /\ logs'[Len(logs')].type =
                (IF syncState' = "SUCCESS" THEN "success" ELSE "error") ]_vars
  /\ [](syncState = "SUCCESS" => \E i \in DOMAIN logs : logs[i].type = "success")
  /\ [](syncState = "ERROR" => \E i \in DOMAIN logs : logs[i].type = "error")

\* C16 witness: a run that uploaded a blob has ended in Error, its last log
\* entry being the error
C16_Witness ==
  /\ syncState = "ERROR" /\ pc = "done"
  /\ calls.createBlob > 0
  /\ logs /= <<>> /\ logs[Len(logs)].type = "error"

\* C18: one iteration of the analysis loop classifies its file: remote path
\* not in the blob map: appended to the uploads as new; in the map with the
\* hash of the local content equal to the remote blob id and no hashing
\* failure: appended to the skipped paths; in the map with another hash, or
\* with the hashing failed: appended to the uploads as modified; and the
\* stage is the one it was, also when the hashing failed.
C18_ClassificationRule ==
  [][ (pc = "loop" /\ analysisCount' = analysisCount + 1) =>
        LET f == files[analysisCount + 1]
            remotePath == RemotePathOf(config.targetPath, f)
            remoteSha == RemoteFileMapGet(baseTreeData.tree, remotePath)
            asNew == [file |-> f, remotePath |-> remotePath, isNew |-> TRUE]
            asModified == [file |-> f, remotePath |-> remotePath, isNew |-> FALSE]
            failedNow == hashFailed' /\ ~hashFailed
        IN /\ syncState' = syncState /\ syncState' /= "ERROR"
           /\ remoteSha = NoSha =>
                /\ filesToUpload' = Append(filesToUpload, asNew)
                /\ filesSkipped' = filesSkipped
                /\ ~failedNow
           /\ (remoteSha /= NoSha /\ computeGitBlobSha(f.content) = remoteSha
                 /\ ~hashFailed') =>
                /\ filesSkipped' = Append(filesSkipped, remotePath)
                /\ filesToUpload' = filesToUpload
           /\ (remoteSha /= NoSha
                 /\ (computeGitBlobSha(f.content) /= remoteSha \/ failedNow)) =>
                /\ filesToUpload' = Append(filesToUpload, asModified)
                /\ filesSkipped' = filesSkipped ]_vars

\* C18 witness: the hashing of a file threw, the file has the content of its
\* remote blob and is among the uploads as modified, next to a file marked
\* new in the same analysis
C18_Witness ==
  /\ syncState = "ANALYZING"
  /\ hashFailed
  /\ \E i \in DOMAIN filesToUpload : filesToUpload[i].isNew
  /\ \E i \in DOMAIN filesToUpload :
       /\ ~filesToUpload[i].isNew
       /\ computeGitBlobSha(filesToUpload[i].file.content)
            = RemoteFileMapGet(baseTreeData.tree, filesToUpload[i].remotePath)

\* C17: parseRepoUrl returns null for a full URL whose host is not github.com
\* itself, and whatever it returns that is not null has a non-empty owner and
\* a non-empty repo.
C17_OnlyProviderHostAccepted ==
  urlResult /= NotCalled =>
    LET u == CleanRepoUrl(urlArg)
        r == urlResult.value
    IN /\ (startsWith(u, Http) /\ ~UrlThrows(u) /\ UrlHostname(u) /= GitHubCom)
            => r = Null
       /\ r /= Null => (r.owner /= <<>> /\ r.repo /= <<>>)

\* the delete pass of the run has been made
DeletePassDone == AnalysisEntered /\ pc /= "loop"

\* C19: with deleteMissing on and a listing that is not truncated, the delete
\* set is the set of the blob paths of the listing that no local file matched
\* and that lie under the normalized target subdirectory; all of the unmatched
\* blob paths when the target subdirectory normalizes to the empty path.
C19_DeleteSetUnderNormalizedTarget ==
  (config.deleteMissing /\ ~baseTreeData.truncated /\ DeletePassDone) =>
    DeletePaths =
      ListedBlobPathsUnder(NormalizedPrefix(config.targetPath))
        \ LocalPaths(Len(files))

\* the listing holds a blob at s2/f that no local file matched, the target
\* subdirectory is s, and the delete pass has been made on the whole listing
SiblingListedUnmatched ==
  /\ config.targetPath = <<"s">>
  /\ config.deleteMissing /\ ~baseTreeData.truncated
  /\ DeletePassDone
  /\ <<"s", "2", "/", "f">> \in ListedBlobPathsUnder(<<>>) \ LocalPaths(Len(files))

\* C20 as stated: with the target subdirectory s and deleteMissing on, an
\* unmatched remote blob at s2/f is put in the delete set.
C20_SiblingDeletedAsStated ==
  SiblingListedUnmatched => <<"s", "2", "/", "f">> \in DeletePaths

\* C20: the scope of the delete pass is the normalized target subdirectory
\* followed by a slash: with the target subdirectory s and deleteMissing on,
\* an unmatched remote blob at s2/f is not put in the delete set, and every
\* path of the delete set starts with s/.
C20_SiblingOutsidePrefix ==
  SiblingListedUnmatched =>
    /\ <<"s", "2", "/", "f">> \notin DeletePaths
    /\ \A p \in DeletePaths : startsWith(p, <<"s", "/">>)

\* C20 witness: the delete pass took the unmatched blob s/a and left s2/f
C20_Witness ==
  /\ SiblingListedUnmatched
  /\ filesToDelete = << <<"s", "/", "a">> >>

\* the final tree of the run has been assembled
TreeAssembled ==
  \/ pc \in {"genMsg", "createTree", "createCommit", "ref"}
  \/ pc = "done" /\ calls.createTree > 0

FinalTreePaths == { finalTree[i].path : i \in DOMAIN finalTree }

UploadedPathSet == SeqRange(uploadedPaths)

\* the listed blob paths under the target prefix that no local file matched,
\* when deleteMissing is on and the prefix is not empty
OrphanedInPrefix ==
  IF config.deleteMissing /\ TargetPrefix(config.targetPath) /= <<>>
  THEN ListedBlobPathsUnder(TargetPrefix(config.targetPath)) \ processedRemotePaths
  ELSE {}

NonBlobEntries ==
  { baseTreeData.tree[j] :
      j \in { i \in DOMAIN baseTreeData.tree : baseTreeData.tree[i].type /= "blob" } }

ListedBlobs ==
  { baseTreeData.tree[j] :
      j \in { i \in DOMAIN baseTreeData.tree : baseTreeData.tree[i].type = "blob" } }

\* every entry the uploads have pushed is the blob of an upload that is done:
\* its path, the regular-file mode and the id createBlob returned for it
UploadedEntriesOwnBlob ==
  /\ Len(newTree) = Cardinality({ k \in DOMAIN tasks : tasks[k] = "done" })
  /\ \A i \in DOMAIN newTree :
       /\ newTree[i].type = "blob" /\ newTree[i].mode = "100644"
       /\ \E k \in DOMAIN tasks :
            /\ tasks[k] = "done"
            /\ newTree[i].path = filesToUpload[k].remotePath
            /\ newTree[i].sha = computeGitBlobSha(filesToUpload[k].file.content)
  /\ TreeAssembled => SubSeq(finalTree, 1, Len(newTree)) = newTree

\* the listing is not changed once the analysis has it
SnapshotKept ==
  [][ (AnalysisEntered /\ pc' /= "idle") => baseTreeData' = baseTreeData ]_vars

C23_ProtocolOrder ==
  /\ [](/\ calls.createTree <= 1 /\ calls.createCommit <= 1 /\ RefCalls <= 1
        /\ calls.createTree > 0 =>
             /\ \A k \in DOMAIN tasks : tasks[k] = "done"
             /\ calls.createBlob = Len(filesToUpload)
             /\ Len(newTree) = Len(filesToUpload)
        /\ calls.createCommit > 0 =>
             /\ calls.createTree = 1
             /\ newTreeSha \in DOMAIN treeObjs
             /\ treeObjs[newTreeSha] = finalTree
        /\ RefCalls > 0 =>
             /\ calls.createCommit = 1
             /\ newCommitSha \in DOMAIN commitObjs
             /\ commitObjs[newCommitSha].by = "sync"
             /\ commitObjs[newCommitSha].tree = newTreeSha)
  /\ [][ (refDone = "none" /\ refDone' /= "none") =>
           (remoteHead' = newCommitSha /\ RefCalls = 1) ]_vars

\* C23 witness: a run of two uploads has had its ref call accepted
C23_Witness ==
  /\ refDone /= "none"
  /\ Len(filesToUpload) = 2
  /\ calls.createBlob = 2
  /\ remoteHead = newCommitSha

\* C24: a run whose head commit was resolved and whose tree listing failed
\* creates no commit with that head as parent: the empty listing goes with no
\* parent commit only, and the branch does not come to a tree that has lost
\* the blobs of the head the run did not upload.
C24_EmptySnapshotOnlyWithoutParent ==
  (latestCommitSha /= NoCommit /\ scanError /= "none") =>
    /\ newCommitSha = NoCommit
    /\ refDone = "none"

\* the blobs of the tree of the resolved head that the listing left out
OmittedBlobs ==
  { e \in SeqRange(TreeOfCommit(latestCommitSha)) :
      e.type = "blob" /\ e \notin SeqRange(baseTreeData.tree) }

\* C25: when the listing was truncated, every blob of the tree of the head
\* that the listing left out and the run did not upload is, with its blob id,
\* in the tree of the commit the run has set the branch to.
C25_TruncationLosesNothing ==
  (baseTreeData.truncated /\ refDone /= "none") =>
    \A e \in OmittedBlobs :
      e.path \notin UploadedPathSet =>
        \E t \in SeqRange(TreeOfCommit(newCommitSha)) :
          t.path = e.path /\ t.sha = e.sha

UnderTarget(path) == startsWith(path, NormalizedPrefix(config.targetPath))

\* C26: every path the run uploads and every path of its delete set lies
\* under the normalized target subdirectory, and every listed blob entry
\* outside it is in the final tree as it was listed; the local files include
\* one with a dot segment, a dot-dot segment and a backslash in its raw path.
C26_ScopedToTarget ==
  /\ \A i \in DOMAIN filesToUpload : UnderTarget(filesToUpload[i].remotePath)
  /\ \A i \in DOMAIN newTree : UnderTarget(newTree[i].path)
  /\ \A p \in DeletePaths : UnderTarget(p)
  /\ TreeAssembled =>
       \A e \in ListedBlobs :
         ~UnderTarget(e.path) =>
           \E i \in DOMAIN finalTree : i > Len(newTree) /\ finalTree[i] = e

\* C26 witness: under the target s the file of the dotted raw path has been
\* uploaded to s/a, and the listed blobs a and s2/f, outside s, are in the
\* final tree
C26_Witness ==
  /\ TreeAssembled
  /\ config.targetPath = <<"s">>
  /\ \E i \in DOMAIN newTree :
       newTree[i].path = <<"s", "/", "a">> /\ newTree[i].sha = computeGitBlobSha(2)
  /\ { <<"a">>, <<"s", "2", "/", "f">> } \subseteq
       { finalTree[i].path : i \in { k \in DOMAIN finalTree : k > Len(newTree) } }

C28_ErrorStopsUploads ==
  [][ (syncState = "ERROR" /\ syncState' = "ERROR") =>
        /\ calls'.createBlob = calls.createBlob
        /\ stats'.uploaded = stats.uploaded
        /\ progress' = progress
        /\ logs' = logs ]_vars

InProgress == syncState \in {"SCANNING", "ANALYZING", "UPLOADING", "COMMITTING"}

\* a step of an upload task of an earlier startSync call, taken while a run
\* is in progress
EarlierRunStep == InProgress /\ stale' /= stale

\* a startSync call begins a run only from Idle with no run in progress, and
\* the call in progress is the one the stage is of
OneRunInProgress ==
  /\ [][ runs' = runs + 1 => (syncState = "IDLE" /\ pc = "idle" /\ pc' = "getRef") ]_vars
  /\ [](InProgress <=> pc \notin {"idle", "done"})

C30_CountersConsistent ==
  /\ [](/\ stats.scanned <= stats.total
        /\ stats.uploaded <= Len(filesToUpload)
        /\ Len(filesToUpload) <= stats.total)
  /\ [][ (pc /= "idle" /\ pc' /= "idle") =>
           (stats'.scanned >= stats.scanned /\ stats'.uploaded >= stats.uploaded) ]_vars
  /\ []((syncState = "SUCCESS" /\ refDone /= "none") =>
          stats.uploaded = Cardinality(DOMAIN filesToUpload))


====
